---- MODULE Spec2Model ----
(***************************************************************************)
(* Model of scripts/network_stream.py: the NetworkStream node.  run()      *)
(* optionally arms a device over HTTP (handle_case(pre=True)), spawns a    *)
(* GStreamer pipeline (connect), reads fixed-size raw frames from the      *)
(* pipeline's stdout with a 3 second select() timeout, publishes each      *)
(* frame, and on leaving the loop runs the cleanup tail (lines 103-107).   *)
(*                                                                         *)
(* The state is the object's fields, the local variables of run(), the     *)
(* position of run() (pc), and the environment run() talks to: the pipe    *)
(* of the child process, the ROS shutdown flag, the ROS clock, the ROS     *)
(* topic and the HTTP control API.                                         *)
(***************************************************************************)
EXTENDS Integers, Sequences, FiniteSets, TLC

\* ------------------------------------------------------------------ bounds
MaxFrames == 2      \* the pipeline writes at most MaxFrames frames' worth of bytes
MaxTime   == 1      \* rospy.Time.now() ranges over 0..MaxTime

\* --------------------------------------------------------------- constants
TIMEOUT_LIMIT_Mut == 5 - 1      \* faulty variant: breaks one timeout early
TIMEOUT_LIMIT == 5          \* if timeout_countdown == 5: break
SONAR_RANGE == 40           \* "sonar_range": 40
STREAMTYPE_VALUE == 2       \* "value": 2

Modes  == {0, 1}            \* ~mode: 0 is UDP, anything else RTSP
Cases  == {0, 1, 2}         \* ~exceptional_case: 0 none, 1 MBE, 2 another truthy value
Shapes == {<<2, 1, 1>>, <<1, 1, 3>>}    \* <<~width, ~height, ~channels>>

VARIABLES
    mode, case, width, height, channels,   \* parameters read by __init__
    pc,                 \* position of run()
    timeout_countdown,  \* local of run()
    raw,                \* local of run(): the buffer of the last read, [off, len]
    read_time,          \* local of run(): rospy.Time.now() after the last read
    sp,                 \* self.sp: the child process and its stdout, or NoProcess
    produced,           \* bytes the pipeline has written to its stdout so far
    consumed,           \* bytes run() has read from self.sp.stdout so far
    upstreamClosed,     \* the pipeline has closed its end of the pipe (exited)
    shutdown,           \* rospy.is_shutdown()
    now,                \* rospy.Time.now()
    published,          \* messages handed to self.pub.publish, in order
    http,               \* requests issued to the control API, in order
    events,             \* resource-lifecycle calls made by run(), in order
    outcomes,           \* history: the last 5 select/read outcomes, in order
    scenario,           \* history: how far the outcomes so far follow Scenario
    frames,             \* history: every full frame read, [off, conv], in order
    exit,               \* how the while loop was left
    raised              \* the call whose exception escaped run(), or "none"

vars == <<mode, case, width, height, channels, pc, timeout_countdown, raw,
          read_time, sp, produced, consumed, upstreamClosed, shutdown, now,
          published, http, events, outcomes, scenario, frames, exit, raised>>

config == <<mode, case, width, height, channels>>

NoProcess == [spawned |-> FALSE, source |-> "none", preexec_fn |-> "none",
              stdoutClosed |-> FALSE, killed |-> FALSE]
NoRaw == [off |-> 0, len |-> 0]

\* ----------------------------------------------------------- pure helpers
Min(a, b) == IF a < b THEN a ELSE b

Last(s) == s[Len(s)]

\* self.width * self.height * self.channels (lines 75, 77)
FrameSize(w, h, c) == w * h * c

N == FrameSize(width, height, channels)

\* bytes waiting in the pipe
Avail == produced - consumed

\* select.select([self.sp.stdout], [], [], 3): readable when bytes are waiting
\* or the write end is closed (a read would return at once with EOF)
Readable(avail, closed) == avail > 0 \/ closed

\* self.sp.stdout.read(n) on the blocking pipe: returns once n bytes have
\* arrived or the write end is closed
\* (faulty variant: returns as soon as any byte is waiting, as os.read does)
ReadReturns_Mut(avail, closed, n) == avail > 0 \/ closed
ReadReturns(avail, closed, n) == avail >= n \/ closed

\* ... and then yields n bytes, or what is left before EOF
ReadLen(avail, n) == Min(avail, n)

\* if len(raw) < self.width * self.height * self.channels: break
\* (faulty variant: the length test is missing)
IsShort_Mut(len, n) == FALSE
IsShort(len, n) == len < n

\* timeout_countdown = 0 (line 72)
\* (faulty variant: the reset is missing)
ResetCountdown_Mut(c) == c
ResetCountdown(c) == 0

\* timeout_countdown += 1 (line 90)
\* (faulty variant: a timeout counts twice)
NextCountdown_Mut(c) == c + 2
NextCountdown(c) == c + 1

\* msg = cv2_to_imgmsg(image); msg.header.stamp = read_time (lines 83-84)
\* (faulty variant: the message is stamped with the time of publishing)
FrameMessage_Mut(buf, stamp) == [off |-> buf.off, len |-> buf.len, stamp |-> now]
FrameMessage(buf, stamp) == [off |-> buf.off, len |-> buf.len, stamp |-> stamp]

\* self.pub.publish(msg) (line 85)
\* (faulty variant: the newest message overtakes the earlier ones)
Publish_Mut(q, msg) == <<msg>> \o q
Publish(q, msg) == Append(q, msg)

\* the command line of connect(): udpsrc for mode 0, rtspsrc otherwise;
\* Popen is given stdout=PIPE and nothing else (no preexec_fn)
Spawn(m) == [spawned |-> TRUE,
             source |-> IF m = 0 THEN "udpsrc" ELSE "rtspsrc",
             preexec_fn |-> "none",
             stdoutClosed |-> FALSE,
             killed |-> FALSE]

\* the three requests of handle_case
EnableRequest ==
    [method |-> "PATCH", path |-> "/transponder", enable |-> "true",
     sonar_range |-> SONAR_RANGE, value |-> 0]
StreamTypeRequest ==
    [method |-> "PUT", path |-> "/streamtype", enable |-> "absent",
     sonar_range |-> 0, value |-> STREAMTYPE_VALUE]
DisableRequest ==
    [method |-> "PATCH", path |-> "/transponder", enable |-> "false",
     sonar_range |-> 0, value |-> 0]

\* handle_case: the requests it issues, in order
\* (faulty variant: any truthy flag selects the MBE branch, as run()'s own
\* test "if self.case" does)
HandleCase_Mut(c, pre, post) ==
    IF c # 0
    THEN (IF pre THEN <<EnableRequest, StreamTypeRequest>> ELSE << >>)
         \o (IF post THEN <<DisableRequest>> ELSE << >>)
    ELSE << >>
HandleCase(c, pre, post) ==
    IF c = 1
    THEN (IF pre THEN <<EnableRequest, StreamTypeRequest>> ELSE << >>)
         \o (IF post THEN <<DisableRequest>> ELSE << >>)
    ELSE << >>

\* the requests actually issued when request number failAt raises
\* (failAt = 0: none raises), each with whether it returned
Issued(reqs, failAt) ==
    [i \in 1..(IF failAt = 0 THEN Len(reqs) ELSE failAt) |->
        [req |-> reqs[i], ok |-> (i # failAt)]]

\* except Exception around handle_case(pre=True): log and return (lines 59-61)
\* (faulty variant: the return is missing)
AfterPreFailure_Mut == "connect"
AfterPreFailure == "done"

\* the cleanup tail of run(), lines 104-107, as the calls it makes in order
\* (faulty variant: the post-step is called last)
CleanupSteps_Mut(c) ==
    IF c # 0 THEN <<"close", "kill", "handle_case_post">> ELSE <<"close", "kill">>
CleanupSteps(c) ==
    IF c # 0 THEN <<"handle_case_post", "close", "kill">> ELSE <<"close", "kill">>

\* ---------------------------------------------------------------- history
\* the scenario of the specification's section 8: 4 timeouts, 1 frame, 5 timeouts
Scenario ==
    <<"TimedOut", "TimedOut", "TimedOut", "TimedOut", "FrameReady",
      "TimedOut", "TimedOut", "TimedOut", "TimedOut", "TimedOut">>

\* the last 5 entries of a sequence
Window(h) == IF Len(h) > 5 THEN SubSeq(h, Len(h) - 4, Len(h)) ELSE h

\* scenario counts the outcomes so far while they are a prefix of Scenario,
\* and is -1 once they are not
Follow(s, o) ==
    IF s >= 0 /\ s < Len(Scenario) /\ Scenario[s + 1] = o THEN s + 1 ELSE -1

\* the outcome o of a select/read is recorded
Observe(o) ==
    /\ outcomes' = Window(Append(outcomes, o))
    /\ scenario' = Follow(scenario, o)

\* ------------------------------------------------------------------- Init
Init ==
    /\ mode \in Modes
    /\ case \in Cases
    /\ \E shape \in Shapes :
          /\ width = shape[1]
          /\ height = shape[2]
          /\ channels = shape[3]
    /\ pc = "run"
    /\ timeout_countdown = 0
    /\ raw = NoRaw
    /\ read_time = 0
    /\ sp = NoProcess
    /\ produced = 0
    /\ consumed = 0
    /\ upstreamClosed = FALSE
    /\ shutdown = FALSE
    /\ now = 0
    /\ published = << >>
    /\ http = << >>
    /\ events = << >>
    /\ outcomes = << >>
    /\ scenario = 0
    /\ frames = << >>
    /\ exit = "none"
    /\ raised = "none"

\* ------------------------------------------------------------ run(), head
\* lines 56-61: if self.case: try handle_case(pre=True) except: log, return
RunPre ==
    /\ pc = "run"
    /\ IF case # 0
       THEN LET reqs == HandleCase(case, TRUE, FALSE) IN
            \E failAt \in 0..Len(reqs) :
                /\ http' = http \o Issued(reqs, failAt)
                /\ events' = Append(events, "handle_case_pre")
                /\ pc' = IF failAt = 0 THEN "connect" ELSE AfterPreFailure
       ELSE /\ pc' = "connect"
            /\ UNCHANGED <<http, events>>
    /\ UNCHANGED <<config, timeout_countdown, raw, read_time, sp, produced,
                   consumed, upstreamClosed, shutdown, now, published,
                   outcomes, scenario, frames, exit, raised>>

\* lines 63-65: self.connect() spawns the pipeline; timeout_countdown = 0
Connect ==
    /\ pc = "connect"
    /\ sp' = Spawn(mode)
    /\ events' = Append(events, "spawn")
    /\ timeout_countdown' = 0
    /\ pc' = "while"
    /\ UNCHANGED <<config, raw, read_time, produced, consumed, upstreamClosed,
                   shutdown, now, published, http, outcomes, scenario, frames, exit, raised>>

\* lines 44/51: Popen raises (no such binary, fork failure); nothing in run()
\* catches it
ConnectFails ==
    /\ pc = "connect"
    /\ raised' = "connect"
    /\ pc' = "done"
    /\ UNCHANGED <<config, timeout_countdown, raw, read_time, sp, produced,
                   consumed, upstreamClosed, shutdown, now, published, http,
                   events, outcomes, scenario, frames, exit>>

\* ------------------------------------------------------------ run(), loop
LoopPcs == {"while", "select", "read", "process"}

\* line 67: while not rospy.is_shutdown()
WhileCheck ==
    /\ pc = "while"
    /\ IF shutdown
       THEN /\ exit' = "shutdown"
            /\ pc' = "cleanup"
       ELSE /\ pc' = "select"
            /\ UNCHANGED exit
    /\ UNCHANGED <<config, timeout_countdown, raw, read_time, sp, produced,
                   consumed, upstreamClosed, shutdown, now, published, http,
                   events, outcomes, scenario, frames, raised>>

\* lines 69-72: select reports the stream readable; the countdown is reset
SelectReadable ==
    /\ pc = "select"
    /\ Readable(Avail, upstreamClosed)
    /\ timeout_countdown' = ResetCountdown(timeout_countdown)
    /\ pc' = "read"
    /\ UNCHANGED <<config, raw, read_time, sp, produced, consumed,
                   upstreamClosed, shutdown, now, published, http, events,
                   outcomes, scenario, frames, exit, raised>>

\* lines 69, 89-93: nothing readable within the timeout
SelectTimedOut ==
    /\ pc = "select"
    /\ ~Readable(Avail, upstreamClosed)
    /\ timeout_countdown' = NextCountdown(timeout_countdown)
    /\ Observe("TimedOut")
    /\ IF timeout_countdown' = TIMEOUT_LIMIT
       THEN /\ exit' = "timeout"
            /\ pc' = "cleanup"
       ELSE /\ pc' = "while"
            /\ UNCHANGED exit
    /\ UNCHANGED <<config, raw, read_time, sp, produced, consumed,
                   upstreamClosed, shutdown, now, published, http, events,
                   frames, raised>>

\* lines 69, 98-99: select is interrupted (select.error); the loop is left
SelectError ==
    /\ pc = "select"
    /\ exit' = "fault"
    /\ pc' = "cleanup"
    /\ UNCHANGED <<config, timeout_countdown, raw, read_time, sp, produced,
                   consumed, upstreamClosed, shutdown, now, published, http,
                   events, outcomes, scenario, frames, raised>>

\* lines 75-78: the blocking read of one frame, the timestamp, the length test
Read ==
    /\ pc = "read"
    /\ ReadReturns(Avail, upstreamClosed, N)
    /\ LET len == ReadLen(Avail, N) IN
        /\ raw' = [off |-> consumed, len |-> len]
        /\ consumed' = consumed + len
        /\ read_time' = now
        /\ IF IsShort(len, N)
           THEN /\ Observe("Eof")
                /\ exit' = "eof"
                /\ pc' = "cleanup"
                /\ UNCHANGED frames
           ELSE /\ Observe("FrameReady")
                /\ frames' = Append(frames, [off |-> consumed, conv |-> "pending"])
                /\ pc' = "process"
                /\ UNCHANGED exit
    /\ UNCHANGED <<config, timeout_countdown, sp, produced, upstreamClosed,
                   shutdown, now, published, http, events, raised>>

\* lines 81-85: the frame is converted, stamped and published
PublishFrame ==
    /\ pc = "process"
    /\ published' = Publish(published, FrameMessage(raw, read_time))
    /\ frames' = [frames EXCEPT ![Len(frames)].conv = "ok"]
    /\ pc' = "while"
    /\ UNCHANGED <<config, timeout_countdown, raw, read_time, sp, produced,
                   consumed, upstreamClosed, shutdown, now, http, events,
                   outcomes, scenario, exit, raised>>

\* (faulty variant of ConversionFault: CvBridgeError is not caught inside the
\* loop and falls through to the loop's except Exception)
ConversionFault_Mut ==
    /\ pc = "process"
    /\ frames' = [frames EXCEPT ![Len(frames)].conv = "CvBridgeError"]
    /\ exit' = "fault"
    /\ pc' = "cleanup"
    /\ UNCHANGED <<config, timeout_countdown, raw, read_time, sp, produced,
                   consumed, upstreamClosed, shutdown, now, published, http,
                   events, outcomes, scenario, raised>>

\* lines 83, 86-87: cv2_to_imgmsg raises CvBridgeError; logged, loop goes on
ConversionFault ==
    /\ pc = "process"
    /\ frames' = [frames EXCEPT ![Len(frames)].conv = "CvBridgeError"]
    /\ pc' = "while"
    /\ UNCHANGED <<config, timeout_countdown, raw, read_time, sp, produced,
                   consumed, upstreamClosed, shutdown, now, published, http,
                   events, outcomes, scenario, exit, raised>>

\* lines 85, 100-101: publish raises another exception (a ROSException on a
\* closed topic); it is caught by the loop's except Exception
PublishFault ==
    /\ pc = "process"
    /\ frames' = [frames EXCEPT ![Len(frames)].conv = "fault"]
    /\ exit' = "fault"
    /\ pc' = "cleanup"
    /\ UNCHANGED <<config, timeout_countdown, raw, read_time, sp, produced,
                   consumed, upstreamClosed, shutdown, now, published, http,
                   events, outcomes, scenario, raised>>

\* ------------------------------------------------------------ run(), tail
\* whether a cleanup call can raise: handle_case(post=True) when it issues a
\* request, stdout.close() on an I/O error; kill() does not
CanRaise(step) ==
    \/ step = "handle_case_post" /\ HandleCase(case, FALSE, TRUE) # << >>
    \/ step = "close"

\* lines 104-107: the calls of CleanupSteps in order; the first that raises
\* ends run() with the rest not made
Cleanup ==
    /\ pc = "cleanup"
    /\ LET steps == CleanupSteps(case) IN
       \E failAt \in 0..Len(steps) :
          /\ failAt # 0 => CanRaise(steps[failAt])
          /\ LET made == IF failAt = 0 THEN steps ELSE SubSeq(steps, 1, failAt)
                  returned(s) == \E i \in 1..Len(made) : made[i] = s /\ i # failAt
                  called(s) == \E i \in 1..Len(made) : made[i] = s
             IN
             /\ events' = events \o made
             /\ http' = IF called("handle_case_post")
                        THEN http \o Issued(HandleCase(case, FALSE, TRUE),
                                            IF returned("handle_case_post") THEN 0 ELSE 1)
                        ELSE http
             /\ sp' = [sp EXCEPT !.stdoutClosed = returned("close"),
                                 !.killed = returned("kill")]
             /\ raised' = IF failAt = 0 THEN "none" ELSE steps[failAt]
    /\ pc' = "done"
    /\ UNCHANGED <<config, timeout_countdown, raw, read_time, produced,
                   consumed, upstreamClosed, shutdown, now, published,
                   outcomes, scenario, frames, exit>>

\* ------------------------------------------------------------ environment
\* the pipeline writes k more bytes of decoded video to its stdout
Produce ==
    /\ pc \in LoopPcs
    /\ ~upstreamClosed
    /\ \E k \in 1..N :
          /\ produced + k <= MaxFrames * N
          /\ produced' = produced + k
    /\ UNCHANGED <<config, pc, timeout_countdown, raw, read_time, sp, consumed,
                   upstreamClosed, shutdown, now, published, http, events,
                   outcomes, scenario, frames, exit, raised>>

\* the pipeline exits or closes its stdout
UpstreamClose ==
    /\ pc \in LoopPcs
    /\ ~upstreamClosed
    /\ upstreamClosed' = TRUE
    /\ UNCHANGED <<config, pc, timeout_countdown, raw, read_time, sp, produced,
                   consumed, shutdown, now, published, http, events,
                   outcomes, scenario, frames, exit, raised>>

\* rospy.signal_shutdown: is_shutdown() is true from now on
SignalShutdown ==
    /\ pc \in LoopPcs \cup {"run", "connect"}
    /\ ~shutdown
    /\ shutdown' = TRUE
    /\ UNCHANGED <<config, pc, timeout_countdown, raw, read_time, sp, produced,
                   consumed, upstreamClosed, now, published, http, events,
                   outcomes, scenario, frames, exit, raised>>

\* the ROS clock advances
Tick ==
    /\ pc \in LoopPcs
    /\ now < MaxTime
    /\ now' = now + 1
    /\ UNCHANGED <<config, pc, timeout_countdown, raw, read_time, sp, produced,
                   consumed, upstreamClosed, shutdown, published, http, events,
                   outcomes, scenario, frames, exit, raised>>

Next ==
    \/ RunPre
    \/ Connect
    \/ ConnectFails
    \/ WhileCheck
    \/ SelectReadable
    \/ SelectTimedOut
    \/ SelectError
    \/ Read
    \/ PublishFrame
    \/ ConversionFault
    \/ PublishFault
    \/ Cleanup
    \/ Produce
    \/ UpstreamClose
    \/ SignalShutdown
    \/ Tick

Spec == Init /\ [][Next]_vars

\* the steps of run() itself: the interpreter keeps executing run(), so
\* whenever run() can take a step it eventually does; the pipeline, the
\* clock and the shutdown request are under no such obligation
RunStep ==
    \/ RunPre
    \/ Connect
    \/ ConnectFails
    \/ WhileCheck
    \/ SelectReadable
    \/ SelectTimedOut
    \/ SelectError
    \/ Read
    \/ PublishFrame
    \/ ConversionFault
    \/ PublishFault
    \/ Cleanup

FairSpec == Spec /\ WF_vars(RunStep)

\* ================================================================= claims
Count(seq, x) == Cardinality({i \in 1..Len(seq) : seq[i] = x})

\* width*height*channels, as the specification writes the frame length
FrameBytes == width * height * channels

\* a request of preArm raised / the request of postDisarm raised
PreArmFailed ==
    \E i \in 1..Len(http) :
        ~http[i].ok /\ http[i].req \in {EnableRequest, StreamTypeRequest}
PostDisarmFailed ==
    \E i \in 1..Len(http) : ~http[i].ok /\ http[i].req = DisableRequest

\* how many times the postDisarm request was attempted
PostAttempts ==
    Cardinality({i \in 1..Len(http) : http[i].req = DisableRequest})

LastFiveTimedOut ==
    Len(outcomes) = 5 /\ \A i \in 1..5 : outcomes[i] = "TimedOut"

\* C1: a session that spawned the pipeline and has ended has closed the
\* pipeline's stdout and killed the process exactly once, on every way out of
\* the loop, for every flag value and every result of the post-step (runs in
\* which stdout.close() itself raised are left out of the statement)
C1_TornDownOnce ==
    (pc = "done" /\ sp.spawned /\ raised # "close") =>
        /\ Count(events, "close") = 1
        /\ Count(events, "kill") = 1
        /\ sp.stdoutClosed
        /\ sp.killed

\* C2, as claimed: leaving shutdown requests and faults aside, the loop has
\* been left exactly when the last 5 outcomes were all TimedOut
C2_LeftIffFiveTimeouts ==
    exit \notin {"shutdown", "fault"} =>
        ((exit # "none") <=> LastFiveTimedOut)

\* C2, amended: the loop has been left through the timeout path exactly when
\* the last 5 outcomes were all TimedOut; with no Eof, shutdown request or
\* fault it has been left exactly then; and 4 timeouts, 1 frame, 5 timeouts
\* ends the session at the 10th outcome, not earlier, with the one frame
\* published unless its conversion failed
C2_TimeoutExit ==
    /\ (exit = "timeout") <=> LastFiveTimedOut
    /\ exit \notin {"eof", "shutdown", "fault"} =>
           ((exit # "none") <=> LastFiveTimedOut)
    /\ scenario \in 1..(Len(Scenario) - 1) => exit # "timeout"
    /\ scenario = Len(Scenario) =>
           /\ exit = "timeout"
           /\ Len(frames) = 1
           /\ Len(published) = (IF frames[1].conv = "ok" THEN 1 ELSE 0)

C2_Witness ==
    /\ scenario = Len(Scenario)
    /\ exit = "timeout"
    /\ pc = "done"
    /\ Len(published) = 1

\* a step in which select timed out
TimedOutStep ==
    pc = "select" /\ pc' \in {"while", "cleanup"} /\ exit' # "fault"

\* C3: timeout_countdown is 0 after every FrameReady outcome, until the next
\* outcome, and every TimedOut outcome adds exactly 1 to it
C3_CounterUpdates ==
    /\ []((outcomes # << >> /\ Last(outcomes) = "FrameReady")
             => timeout_countdown = 0)
    /\ [][TimedOutStep => timeout_countdown' = timeout_countdown + 1]_vars

C3_Witness ==
    /\ outcomes = <<"TimedOut", "TimedOut", "TimedOut", "TimedOut", "FrameReady">>
    /\ pc = "process"
    /\ timeout_countdown = 0

\* C4: when the flag is set and a request of preArm raised, run() has
\* returned having spawned nothing, read nothing, published nothing and made
\* no cleanup call
C4_PreFailureAborts ==
    (case # 0 /\ PreArmFailed) =>
        /\ pc = "done"
        /\ ~sp.spawned
        /\ events = <<"handle_case_pre">>
        /\ consumed = 0
        /\ outcomes = << >>
        /\ frames = << >>
        /\ published = << >>
        /\ PostAttempts = 0

C4_Witness ==
    /\ case = 1
    /\ pc = "done"
    /\ Len(http) = 2
    /\ http[1].ok
    /\ ~http[2].ok

\* C5: with the device-handshake flag, the post-step is only ever called
\* after stdout.close() has been called
C5_CloseBeforePost ==
    case = 1 =>
        \A i \in 1..Len(events) :
            events[i] = "handle_case_post" =>
                \E j \in 1..(i - 1) : events[j] = "close"

\* C6: a postDisarm request that raised leaves no exception escaping run()
\* and the pipeline closed and killed
C6_PostFailureNonFatal ==
    PostDisarmFailed =>
        /\ raised = "none"
        /\ sp.stdoutClosed
        /\ sp.killed

\* C7: with exceptional_case = 1, a session that left the loop and has ended
\* attempted postDisarm exactly once, and no session attempts it earlier
C7_PostDisarmOnce ==
    case = 1 =>
        PostAttempts = (IF pc = "done" /\ exit # "none" THEN 1 ELSE 0)

C7_Witness ==
    /\ case = 1
    /\ pc = "done"
    /\ exit = "timeout"
    /\ raised = "close"
    /\ PostAttempts = 1

\* C8: a read of fewer than width*height*channels bytes leaves the loop at
\* once (Eof); its buffer is never a frame and never published; and after it
\* nothing more is read, observed or published
C8_ShortReadEnds ==
    /\ [](pc = "process" => raw.len = FrameBytes)
    /\ [](exit = "eof" =>
             /\ raw.len < FrameBytes
             /\ pc \in {"cleanup", "done"}
             /\ \A i \in 1..Len(published) : published[i].off # raw.off
             /\ \A i \in 1..Len(frames) : frames[i].off # raw.off)
    /\ [][(pc = "read" /\ pc' # "read" /\ raw'.len < FrameBytes) =>
             (exit' = "eof" /\ pc' = "cleanup" /\ published' = published)]_vars
    /\ [][exit = "eof" =>
             /\ pc' \notin {"while", "select", "read", "process"}
             /\ consumed' = consumed
             /\ raw' = raw
             /\ outcomes' = outcomes
             /\ published' = published]_vars

C8_Witness ==
    /\ exit = "eof"
    /\ pc = "done"
    /\ raw.len > 0
    /\ raw.len < FrameBytes
    /\ Len(published) = 1

IsConverted(f) == f.conv = "ok"
Offsets(seq) == [i \in 1..Len(seq) |-> seq[i].off]

\* C9: the published messages are exactly the frames read whose conversion
\* succeeded, once each and in read order; and no frame is still waiting to
\* be published when the next wait or read begins
C9_PublishedInReadOrder ==
    /\ Offsets(published) = Offsets(SelectSeq(frames, IsConverted))
    /\ \A i, j \in 1..Len(published) :
           i < j => published[i].off < published[j].off
    /\ pc \in {"while", "select", "read"} =>
           \A i \in 1..Len(frames) : frames[i].conv # "pending"

C9_Witness ==
    /\ Len(frames) = 2
    /\ Len(published) = 2
    /\ published[1].off = 0
    /\ published[2].off = FrameBytes

\* C10: the k-th frame read is bytes [(k-1)*N, k*N) of the stream, with
\* N = width*height*channels; inside the loop the bytes consumed are always a
\* whole number of frames; and a read comes back short only at the end of
\* the stream
C10_FrameBoundaries ==
    /\ \A k \in 1..Len(frames) : frames[k].off = (k - 1) * FrameBytes
    /\ pc = "process" =>
           /\ raw.len = FrameBytes
           /\ raw.off = frames[Len(frames)].off
    /\ \A i \in 1..Len(published) : published[i].len = FrameBytes
    /\ pc \in LoopPcs => consumed = Len(frames) * FrameBytes
    /\ exit = "eof" => upstreamClosed

C10_Witness ==
    /\ pc = "process"
    /\ Len(frames) = 2
    /\ raw = [off |-> FrameBytes, len |-> FrameBytes]
    /\ FrameBytes = 3

\* a step in which the conversion of the frame just read raised CvBridgeError
ConversionFaultStep ==
    /\ pc = "process"
    /\ frames' # frames
    /\ Last(frames').conv = "CvBridgeError"

\* C11: a frame whose conversion raises CvBridgeError is not published, does
\* not end the loop, leaves the pipeline and timeout_countdown (0) as they
\* were, and the next read yields the frame that follows it in the stream
C11_ConversionFaultNonFatal ==
    /\ [][ConversionFaultStep =>
             /\ published' = published
             /\ pc' = "while"
             /\ exit' = "none"
             /\ sp' = sp /\ ~sp'.stdoutClosed /\ ~sp'.killed
             /\ events' = events
             /\ consumed' = consumed
             /\ timeout_countdown' = 0]_vars
    /\ [](\A i \in 1..Len(frames) :
             frames[i].conv = "CvBridgeError" =>
                 /\ \A j \in 1..Len(published) : published[j].off # frames[i].off
                 /\ i < Len(frames) => frames[i + 1].off = frames[i].off + FrameBytes)

C11_Witness ==
    /\ Len(frames) = 2
    /\ frames[1].conv = "CvBridgeError"
    /\ frames[2].conv = "ok"
    /\ published = <<FrameMessage([off |-> FrameBytes, len |-> FrameBytes], published[1].stamp)>>

\* C12: once a shutdown has been requested, run() reaches its cleanup,
\* whatever the pipeline does from then on
C12_ShutdownReachesEnding ==
    shutdown ~> (pc \in {"cleanup", "done"})

\* the requests of preArm and of postDisarm are the ones the claim lists, in
\* the order it lists them
HandshakeCallShapes ==
    /\ \A i \in 1..Len(http) :
           /\ i = 1 => http[i].req = [method |-> "PATCH", path |-> "/transponder",
                                      enable |-> "true", sonar_range |-> SONAR_RANGE,
                                      value |-> 0]
           /\ i = 2 => (http[i].req.method = "PUT" /\ http[i].req.path = "/streamtype")
           /\ i = 3 => http[i].req = [method |-> "PATCH", path |-> "/transponder",
                                      enable |-> "false", sonar_range |-> 0,
                                      value |-> 0]
    /\ Len(http) <= 3
    /\ (case = 1 /\ pc # "run" /\ ~PreArmFailed) => Len(http) >= 2
    /\ (Len(http) >= 2 /\ pc \in LoopPcs \cup {"connect", "cleanup"}) => Len(http) = 2

\* C13: preArm issues the enable request and then the stream-type request,
\* postDisarm the one disable request, and the stream type requested is the
\* RTSP one (the value the source documents as RTSP) exactly in RTSP mode
C13_StreamTypeMatchesMode ==
    /\ HandshakeCallShapes
    /\ \A i \in 1..Len(http) :
           http[i].req.path = "/streamtype" =>
               ((http[i].req.value = STREAMTYPE_VALUE) <=> (mode # 0))

C16_DefaultSigpipeAtSpawn ==
    sp.spawned => sp.preexec_fn = "default_sigpipe"

\* C17: no request is issued unless exceptional_case = 1, and with it the
\* requests are issued only by the pre-step, before the pipeline is spawned,
\* and by the cleanup after the loop, never while run() is in the loop
C17_CallsOnlyInHandshake ==
    /\ [](case # 1 => http = << >>)
    /\ [][http' # http =>
             \/ pc = "run" /\ ~sp.spawned
             \/ pc = "cleanup" /\ exit # "none" /\ pc' = "done"]_vars
    /\ [](pc \in LoopPcs => Len(http) = (IF case = 1 THEN 2 ELSE 0))

C17_Witness ==
    /\ case = 1
    /\ pc = "done"
    /\ Len(http) = 3
    /\ Len(published) = 2
    /\ exit = "eof"

\* both requests of preArm returned: the device is armed
PreArmSucceeded ==
    /\ Len(http) >= 2
    /\ http[1].req = EnableRequest /\ http[1].ok
    /\ http[2].req = StreamTypeRequest /\ http[2].ok

\* C18: a session that armed the device and has ended has attempted
\* postDisarm
C18_ArmedSessionDisarms ==
    (pc = "done" /\ PreArmSucceeded) => PostAttempts >= 1

\* C19: timeout_countdown stays in 0..5 and is 5 only after the loop has
\* been left; a wait or read is only ever under way with the counter below 5
\* and the pipe open, and none starts once the counter is 5 or the pipe has
\* been closed
C19_CounterRange ==
    /\ [](timeout_countdown \in 0..5)
    /\ [](timeout_countdown = 5 => (pc \in {"cleanup", "done"} /\ exit = "timeout"))
    /\ [](pc \in {"select", "read"} =>
             /\ timeout_countdown < 5
             /\ sp.spawned /\ ~sp.stdoutClosed /\ ~sp.killed)
    /\ [][(timeout_countdown = 5 \/ sp.stdoutClosed) =>
             /\ pc' \notin {"select", "read"}
             /\ consumed' = consumed
             /\ outcomes' = outcomes]_vars

C19_Witness ==
    /\ timeout_countdown = 5
    /\ pc = "done"
    /\ sp.stdoutClosed
    /\ sp.killed
    /\ Len(frames) = 1

====
